---- MODULE Spec2Model ----
(***************************************************************************)
(* Model of mrirage/slicer/slice_2d.py: the 2D slice of a datacube along   *)
(* an axis-aligned plane (cuboid, intersect_line_plane,                    *)
(* intersect_points_plane, intersect_poly, slice_image).                   *)
(*                                                                         *)
(* Numbers.  The code computes in float64.  The model computes exactly,    *)
(* with numbers of the form (n + t*tau)/d, where tau = epsilon/EpsTicks is *)
(* a sub-epsilon tick: n/d is the part at voxel scale, t*tau/d the part at *)
(* the scale of the tolerance epsilon = 1e-6.  Floating round-off (1e-16   *)
(* relative) is far below one tick and is not modelled.                    *)
(***************************************************************************)
EXTENDS Integers, Sequences, FiniteSets, TLC

\* ------------------------------------------------------------------ bounds
MaxDim == 3        \* largest datacube dimension enumerated
EpsTicks == 4      \* ticks per epsilon: resolution of the sub-epsilon scale
EpsInv == 1000000  \* 1 / epsilon, epsilon = 1e-6

None == <<>>
Undefined == CHOOSE x \in {} : TRUE   \* outside the arithmetic's domain

\* ------------------------------------------------------------- arithmetic
AbsI(i) == IF i < 0 THEN -i ELSE i
SgnI(i) == IF i < 0 THEN -1 ELSE IF i > 0 THEN 1 ELSE 0

RECURSIVE Gcd(_, _)
Gcd(a, b) == IF b = 0 THEN a ELSE Gcd(b, a % b)

\* the number (n + t*tau)/d in lowest terms, d > 0
S(n, t, d) ==
    LET g == Gcd(Gcd(AbsI(n), AbsI(t)), AbsI(d))
        s == SgnI(d)
    IN  IF d = 0 THEN Undefined
        ELSE [n |-> s * (n \div g), t |-> s * (t \div g), d |-> AbsI(d) \div g]

Int2S(i) == [n |-> i, t |-> 0, d |-> 1]
Zero == Int2S(0)
One == Int2S(1)
Add(a, b) ==
    IF a.d = 1 /\ b.d = 1 THEN [n |-> a.n + b.n, t |-> a.t + b.t, d |-> 1]
    ELSE S(a.n * b.d + b.n * a.d, a.t * b.d + b.t * a.d, a.d * b.d)
Neg(a) == [n |-> -a.n, t |-> -a.t, d |-> a.d]
Sub(a, b) == Add(a, Neg(b))
\* a product has no tau^2 term when one factor is at voxel scale
Mul(a, b) ==
    IF a.t # 0 /\ b.t # 0 THEN Undefined
    ELSE IF a.d = 1 /\ b.d = 1
    THEN [n |-> a.n * b.n, t |-> a.n * b.t + a.t * b.n, d |-> 1]
    ELSE S(a.n * b.n, a.n * b.t + a.t * b.n, a.d * b.d)
\* a quotient: by a voxel-scale number, or of two tick-scale numbers
Div(a, b) ==
    IF b.t = 0 /\ b.n # 0 THEN S(a.n * b.d, a.t * b.d, a.d * b.n)
    ELSE IF b.n = 0 /\ b.t # 0 /\ a.n = 0 THEN S(a.t * b.d, 0, a.d * b.t)
    ELSE Undefined

\* ticks per unit length: tau = 1 / TicksPerUnit
TicksPerUnit == EpsTicks * EpsInv
\* sign of n + t*tau, exactly
Sgn(a) ==
    IF a.n = 0 THEN SgnI(a.t)
    ELSE IF SgnI(a.t) # -SgnI(a.n) THEN SgnI(a.n)
    ELSE IF AbsI(a.t) \div AbsI(a.n) < TicksPerUnit THEN SgnI(a.n)
    ELSE IF AbsI(a.t) = AbsI(a.n) * TicksPerUnit THEN 0
    ELSE SgnI(a.t)
Lt(a, b) == Sgn(Sub(a, b)) < 0
Le(a, b) == Sgn(Sub(a, b)) <= 0
Abs(a) == IF Sgn(a) < 0 THEN Neg(a) ELSE a
Min2(a, b) == IF Lt(b, a) THEN b ELSE a
Max2(a, b) == IF Lt(a, b) THEN b ELSE a

\* largest integer <= a (the tick part is below one unit)
Floor(a) ==
    LET q == a.n \div a.d
    IN  IF Sgn(Sub(a, Int2S(q))) < 0 THEN q - 1
        ELSE IF Sgn(Sub(a, Int2S(q + 1))) >= 0 THEN q + 1
        ELSE q

\* least k >= 0 with k*k >= p/q, for a voxel-scale p/q >= 0: ceil(sqrt(p/q))
RECURSIVE CeilSqrtFrom(_, _, _)
CeilSqrtFrom(k, p, q) == IF k * k * q >= p THEN k ELSE CeilSqrtFrom(k + 1, p, q)

\* ---------------------------------------------------------------- vectors
\* a point is <<x, y, z>>; its homogeneous coordinate is the constant 1
VAdd(u, v) == <<Add(u[1], v[1]), Add(u[2], v[2]), Add(u[3], v[3])>>
VSub(u, v) == <<Sub(u[1], v[1]), Sub(u[2], v[2]), Sub(u[3], v[3])>>
VScale(s, v) == <<Mul(s, v[1]), Mul(s, v[2]), Mul(s, v[3])>>
Dot(u, v) == Add(Add(Mul(u[1], v[1]), Mul(u[2], v[2])), Mul(u[3], v[3]))
IntVec(v) == <<Int2S(v[1]), Int2S(v[2]), Int2S(v[3])>>

\* the sequence <<F(1), ..., F(n)>>
Tabulate(n, F(_)) == <<>> \o [i \in 1..n |-> F(i)]

RECURSIVE MinOver(_), MaxOver(_)
MinOver(s) == IF Len(s) = 1 THEN s[1] ELSE Min2(s[1], MinOver(Tail(s)))
MaxOver(s) == IF Len(s) = 1 THEN s[1] ELSE Max2(s[1], MaxOver(Tail(s)))


\* ------------------------------------------------------------- the datacube
\* Datacube (external): image.shape, image[i, j, k], transform, transform_inv.
\* A transform is the affine map v |-> u * (A v + b); its inverse is
\* p |-> Ainv (p / u - b) / den.
Rows(a, b, c) == <<a, b, c>>
Identity3 == Rows(<<1, 0, 0>>, <<0, 1, 0>>, <<0, 0, 1>>)
TrIdentity ==
    [name |-> "identity", A |-> Identity3, b |-> <<0, 0, 0>>, u |-> One,
     Ainv |-> Identity3, den |-> 1]
\* z' = x + y + z: the plane z' = 0 touches the cuboid at corner 0 only
TrShearXY ==
    [name |-> "shear_xy", A |-> Rows(<<1, 0, 0>>, <<0, 1, 0>>, <<1, 1, 1>>),
     b |-> <<0, 0, 0>>, u |-> One,
     Ainv |-> Rows(<<1, 0, 0>>, <<0, 1, 0>>, <<-1, -1, 1>>), den |-> 1]
\* z' = x + z: the plane z' = 0 touches the cuboid along the edge 0-2 only
TrShearX ==
    [name |-> "shear_x", A |-> Rows(<<1, 0, 0>>, <<0, 1, 0>>, <<1, 0, 1>>),
     b |-> <<0, 0, 0>>, u |-> One,
     Ainv |-> Rows(<<1, 0, 0>>, <<0, 1, 0>>, <<-1, 0, 1>>), den |-> 1]
\* 2 mm voxels, origin shifted: p = 2 v + (-1, 0, 1)
TrScaleShift ==
    [name |-> "scale_shift", A |-> Rows(<<2, 0, 0>>, <<0, 2, 0>>, <<0, 0, 2>>),
     b |-> <<-1, 0, 1>>, u |-> One, Ainv |-> Identity3, den |-> 2]
\* the shear z' = x + z with voxels of 3 ticks (below epsilon): every
\* coordinate is at tick scale
TrMicro ==
    [name |-> "micro", A |-> Rows(<<1, 0, 0>>, <<0, 1, 0>>, <<1, 0, 1>>),
     b |-> <<0, 0, 0>>, u |-> S(0, 3, 1),
     Ainv |-> Rows(<<1, 0, 0>>, <<0, 1, 0>>, <<-1, 0, 1>>), den |-> 1]

MatVec(A, v) == <<Dot(IntVec(A[1]), v), Dot(IntVec(A[2]), v), Dot(IntVec(A[3]), v)>>
transform(tr, v) == VScale(tr.u, VAdd(MatVec(tr.A, v), IntVec(tr.b)))
transform_inv(tr, p) ==
    LET q == VSub(<<Div(p[1], tr.u), Div(p[2], tr.u), Div(p[3], tr.u)>>, IntVec(tr.b))
        r == MatVec(tr.Ainv, q)
        den == Int2S(tr.den)
    IN  <<Div(r[1], den), Div(r[2], den), Div(r[3], den)>>

\* image[i, j, k]: every voxel holds a value of its own
image(shape, i, j, k) == i + shape[1] * (j + shape[2] * k)

\* eye_1d(3, axis, v): v at position axis, zero elsewhere (axis is 0-based)
eye_1d(axis, v) ==
    <<IF axis = 0 THEN v ELSE Zero, IF axis = 1 THEN v ELSE Zero,
      IF axis = 2 THEN v ELSE Zero>>
\* eye_1d(4, 3, False, True) with var_dims[axis] = False: the in-plane dims
var_dims(axis) == SelectSeq(<<0, 1, 2>>, LAMBDA k : k # axis)
RAS_SPACE_LABELS == <<"sagittal", "coronal", "axial">>

Epsilon == S(0, EpsTicks, 1)

\* ------------------------------------------------------------------ cuboid
cuboid_vertices(shape) ==
    LET x == shape[1] - 1
        y == shape[2] - 1
        z == shape[3] - 1
    IN  [k \in 0..7 |->
            IntVec(CASE k = 0 -> <<0, 0, 0>>
                     [] k = 1 -> <<x, 0, 0>>
                     [] k = 2 -> <<0, y, 0>>
                     [] k = 3 -> <<0, 0, z>>
                     [] k = 4 -> <<x, y, 0>>
                     [] k = 5 -> <<0, y, z>>
                     [] k = 6 -> <<x, 0, z>>
                     [] k = 7 -> <<x, y, z>>)]
cuboid_edges ==
    << <<0, 1>>, <<0, 2>>, <<0, 3>>, <<1, 4>>, <<1, 6>>, <<2, 4>>,
       <<2, 5>>, <<3, 5>>, <<3, 6>>, <<4, 7>>, <<5, 7>>, <<6, 7>> >>

\* ------------------------------------------------------ line and plane
\* mutant: the plane's origin is not added back
intersect_line_plane_no_origin(line_origin, line_dir, plane_origin, plane_normal) ==
    LET nu == Dot(plane_normal, line_dir)
    IN  IF Lt(Abs(nu), Epsilon) THEN None
        ELSE LET w == VSub(line_origin, plane_origin)
                 si == Div(Neg(Dot(plane_normal, w)), nu)
             IN  VAdd(w, VScale(si, line_dir))

intersect_line_plane(line_origin, line_dir, plane_origin, plane_normal) ==
    LET nu == Dot(plane_normal, line_dir)
    IN  IF Lt(Abs(nu), Epsilon) THEN None
        ELSE LET w == VSub(line_origin, plane_origin)
                 si == Div(Neg(Dot(plane_normal, w)), nu)
             IN  VAdd(VAdd(w, VScale(si, line_dir)), plane_origin)

\* v = Ratio(v, dir) * dir, for v parallel to dir # 0
Ratio(v, dir) ==
    LET j == CHOOSE i \in 1..3 : Sgn(dir[i]) # 0 /\ \A k \in 1..(i - 1) : Sgn(dir[k]) = 0
    IN  Div(v[j], dir[j])

\* the voxel-scale reading of a vector wholly at one scale
AtTickScale(v) == \A i \in 1..3 : v[i].n = 0
AtVoxelScale(v) == \A i \in 1..3 : v[i].t = 0
Coarse(v) ==
    IF AtVoxelScale(v) THEN v
    ELSE IF AtTickScale(v)
    THEN <<S(v[1].t, 0, v[1].d), S(v[2].t, 0, v[2].d), S(v[3].t, 0, v[3].d)>>
    ELSE Undefined

\* e * norm(dir) > epsilon, for e >= 0.  With dir at voxel scale a
\* voxel-scale e > 0 exceeds epsilon outright and a tick-scale e = et*tau is
\* compared as et * norm(dir) > EpsTicks; with dir at tick scale,
\* norm(dir) = tau * norm(Coarse(dir)) and e is a voxel-scale ratio.
ExceedsEpsilon(e, dir) ==
    LET d2 == Dot(Coarse(dir), Coarse(dir))
        ec == IF AtTickScale(dir)
              THEN (IF e.t = 0 THEN e ELSE Undefined)
              ELSE S(e.t, 0, e.d)
    IN  IF Sgn(e) <= 0 THEN FALSE
        ELSE IF ~AtTickScale(dir) /\ e.n > 0 THEN TRUE
        ELSE ec.n * ec.n * d2.n > EpsTicks * EpsTicks * ec.d * ec.d * d2.d

\* mutant: the line's point is kept wherever it lies on the line
intersect_points_plane_unbounded(point1, point2, plane_origin, plane_normal) ==
    intersect_line_plane(point1, VSub(point2, point1), plane_origin, plane_normal)

intersect_points_plane(point1, point2, plane_origin, plane_normal) ==
    LET direction == VSub(point2, point1)
        orig == point1
        inter == intersect_line_plane(orig, direction, plane_origin, plane_normal)
    IN  IF inter = None THEN None
        ELSE \* inter is on the line through point1 and point2, so that
             \* point1_dist = |a| * between_dist, point2_dist = |b| * between_dist
             LET a == Ratio(VSub(inter, point1), direction)
                 b == Ratio(VSub(inter, point2), direction)
                 excess == Sub(Add(Abs(a), Abs(b)), One)
             IN  \* (between_dist + epsilon) < (point1_dist + point2_dist)
                 IF ExceedsEpsilon(excess, direction) THEN None
                 ELSE inter

\* inter of edge e (1..12) of the transformed cuboid
edge_inter(vertices, edges, e, plane_origin, plane_normal) ==
    intersect_points_plane(vertices[edges[e][1]], vertices[edges[e][2]],
                           plane_origin, plane_normal)

\* lines 97-113: the edges' results, and the non-null ones collected in order
edge_inters(vertices, edges, plane_origin, plane_normal) ==
    Tabulate(Len(edges),
             LAMBDA e : edge_inter(vertices, edges, e, plane_origin, plane_normal))
intersect_poly(all) ==
    LET re == SelectSeq(all, LAMBDA r : r # None)
    IN  IF Len(re) = 0 THEN None ELSE re

\* ------------------------------------------------------------- slice_image
\* lines 124-130: the transformed cuboid against the plane (axis, axis_offset)
corners_trans(shape, tr) ==
    [k \in 0..7 |-> transform(tr, cuboid_vertices(shape)[k])]
plane_origin_of(axis, axis_offset) == eye_1d(axis, axis_offset)
plane_normal_of(axis) == eye_1d(axis, One)

\* coordinate of point p on in-plane dimension number k (1 or 2)
VarCoord(axis, p, k) == p[var_dims(axis)[k] + 1]

\* lines 140-142: min and max of the intersection points, per in-plane dim
natural_extent(axis, pts) ==
    LET xs == Tabulate(Len(pts), LAMBDA i : VarCoord(axis, pts[i], 1))
        ys == Tabulate(Len(pts), LAMBDA i : VarCoord(axis, pts[i], 2))
    IN  [x_min |-> MinOver(xs), y_min |-> MinOver(ys),
         x_max |-> MaxOver(xs), y_max |-> MaxOver(ys)]

\* lines 150-153: the clamp to the bounds, before line 156 overrides it
clamp_to_bounds(ext, b) ==
    [x_min |-> Max2(ext.x_min, b.x_min), y_min |-> Max2(ext.y_min, b.y_min),
     x_max |-> Min2(ext.x_max, b.x_max), y_max |-> Min2(ext.y_max, b.y_max)]

\* mutant: the clamp is the result (lines 156-157 left out)
constrain_to_bounds_clamped(axis, ext, bnds) ==
    IF bnds = None THEN ext
    ELSE clamp_to_bounds(ext, natural_extent(axis, bnds))

\* lines 145-157: with bounds, the extent ends as the bounds' own min and max
constrain_to_bounds(axis, ext, bnds) ==
    IF bnds = None THEN ext
    ELSE LET b == natural_extent(axis, bnds)
             clamped == clamp_to_bounds(ext, b)
         IN  [x_min |-> b.x_min, y_min |-> b.y_min,
              x_max |-> b.x_max, y_max |-> b.y_max]

\* the point at axis_offset along axis and at (a, b) in the in-plane dims
in_plane(axis, axis_offset, a, b) ==
    CASE axis = 0 -> <<axis_offset, a, b>>
      [] axis = 1 -> <<a, axis_offset, b>>
      [] axis = 2 -> <<a, b, axis_offset>>

\* lines 160-165: the four corners of the sampling rectangle
sampling_rect(axis, axis_offset, ext) ==
    <<in_plane(axis, axis_offset, ext.x_min, ext.y_min),
      in_plane(axis, axis_offset, ext.x_max, ext.y_min),
      in_plane(axis, axis_offset, ext.x_max, ext.y_max),
      in_plane(axis, axis_offset, ext.x_min, ext.y_max)>>

\* squared length of a voxel-scale vector, as a fraction
NormSq(v) == Dot(v, v)
\* mutant: the length is rounded down
samples_for_floor(sq1, sq2) ==
    LET m == Max2(sq1, sq2)
        c == CeilSqrtFrom(0, m.n, m.d)
    IN  IF c * c * m.d = m.n THEN c + 1 ELSE c

\* int(ceil(norm)) + 1 for the larger of two squared norms
samples_for(sq1, sq2) ==
    LET m == Max2(sq1, sq2)
    IN  CeilSqrtFrom(0, m.n, m.d) + 1

\* lines 168-180: <<hn, wn>>
resolution(tr, rct, sampling_dims) ==
    IF sampling_dims = None
    THEN LET rect_trans == <<transform_inv(tr, rct[1]), transform_inv(tr, rct[2]),
                             transform_inv(tr, rct[3]), transform_inv(tr, rct[4])>>
             w1 == NormSq(VSub(rect_trans[2], rect_trans[1]))
             w2 == NormSq(VSub(rect_trans[4], rect_trans[3]))
             h1 == NormSq(VSub(rect_trans[3], rect_trans[2]))
             h2 == NormSq(VSub(rect_trans[1], rect_trans[4]))
         IN  <<samples_for(h1, h2), samples_for(w1, w2)>>
    ELSE sampling_dims

\* np.mgrid[lo:hi:complex(n)][i]: n points from lo to hi, both included
linspace(lo, hi, n, i) ==
    IF n = 1 THEN lo
    ELSE Add(lo, Mul(S(i, 0, n - 1), Sub(hi, lo)))

\* mutant: the first in-plane dimension runs fastest
sample_grid_x_fastest(axis, axis_offset, ext, hn, wn, p) ==
    in_plane(axis, axis_offset,
             linspace(ext.x_min, ext.x_max, wn, p % wn),
             linspace(ext.y_min, ext.y_max, hn, p \div wn))

\* lines 183-188: column p (0-based) of sample_grid; mgrid(...).reshape(2, -1)
\* runs the second in-plane dimension fastest: p = ix * hn + iy
sample_grid(axis, axis_offset, ext, hn, wn, p) ==
    LET ix == p \div hn
        iy == p % hn
        gx == linspace(ext.x_min, ext.x_max, wn, ix)
        gy == linspace(ext.y_min, ext.y_max, hn, iy)
    IN  in_plane(axis, axis_offset, gx, gy)

\* mutant: round to nearest
round_nearest(a) == Floor(Add(a, S(1, 0, 2)))
\* mutant: only the upper limit is applied
clip_upper(i, lo, hi) == IF i > hi THEN hi ELSE i

\* astype(int): toward zero
Trunc(a) == IF Sgn(a) >= 0 THEN Floor(a) ELSE -Floor(Neg(a))
clip(i, lo, hi) == IF i < lo THEN lo ELSE IF i > hi THEN hi ELSE i

\* lines 191-195: column p of sample_grid_trans, truncated and clipped
sample_grid_trans(shape, tr, axis, axis_offset, ext, hn, wn, p) ==
    LET g == transform_inv(tr, sample_grid(axis, axis_offset, ext, hn, wn, p))
    IN  <<clip(Trunc(g[1]), 0, shape[1] - 1), clip(Trunc(g[2]), 0, shape[2] - 1),
          clip(Trunc(g[3]), 0, shape[3] - 1)>>

\* mutant: reshape in C order
reshape_C(hn, wn, r, q) == r * wn + q

\* line 198: reshape((3, hn, wn), order='F'): x[:, r, q] is column r + hn * q
reshape_F(hn, wn, r, q) == r + hn * q

\* lines 198-199: x and rastered, rows r = 1..hn and columns q = 1..wn
voxel_grid(shape, tr, axis, axis_offset, ext, hn, wn) ==
    Tabulate(hn, LAMBDA r : Tabulate(wn, LAMBDA q :
        sample_grid_trans(shape, tr, axis, axis_offset, ext, hn, wn,
                          reshape_F(hn, wn, r - 1, q - 1))))
gather(shape, x) ==
    Tabulate(Len(x), LAMBDA r : Tabulate(Len(x[r]), LAMBDA q :
        image(shape, x[r][q][1], x[r][q][2], x[r][q][3])))

\* line 202
labs_of(axis) ==
    <<RAS_SPACE_LABELS[var_dims(axis)[1] + 1], RAS_SPACE_LABELS[var_dims(axis)[2] + 1]>>
\* line 206: columns 0 and 2 of the rectangle's in-plane rows
axis_lims_of(axis, rct) ==
    << <<VarCoord(axis, rct[1], 1), VarCoord(axis, rct[3], 1)>>,
       <<VarCoord(axis, rct[1], 2), VarCoord(axis, rct[3], 2)>> >>

\* ------------------------------------------------------------ state machine
VARIABLES
    shape, tr, axis, axis_offset, bounds, sampling_dims,  \* the call's inputs
    pc,         \* position in slice_image
    edges_hit,  \* intersect_poly: the result of each edge, in edge order
    inters,     \* the intersection point set, or None
    extent,     \* x_min, y_min, x_max, y_max
    rect,       \* the sampling rectangle
    dims,       \* <<hn, wn>>
    x,          \* the voxel indices read, hn rows of wn
    result      \* None, or <<rastered, axis_lims, labs>>

inputs == <<shape, tr, axis, axis_offset, bounds, sampling_dims>>
vars == <<shape, tr, axis, axis_offset, bounds, sampling_dims, pc, edges_hit,
          inters, extent, rect, dims, x, result>>

Half(k) == S(k, 0, 2)
Shapes == (1..MaxDim) \X (1..MaxDim) \X (1..MaxDim)
\* offsets at voxel scale: -1/2, 0, 1/2, ..., MaxDim - 1/2
VoxelOffsets == {Half(k) : k \in -1..(2 * MaxDim - 1)}
\* offsets within a few ticks of an integer coordinate
NearOffsets == {S(k, t, 1) : k \in 0..(MaxDim - 1), t \in {-3, -1, 1, 3}}
\* offsets of the micro transform: whole ticks
TickOffsets == {S(0, t, 1) : t \in -2..(3 * MaxDim - 2)}

Pt(a, b, c) == <<Half(a), Half(b), Half(c)>>
\* bounds inside, across and wholly outside a small volume
BoundsInside == <<Pt(1, 0, 1), Pt(2, 2, 2)>>
BoundsAcross == <<Pt(3, 5, 3), Pt(-1, -1, -3)>>
BoundsOutside == <<Pt(11, 12, 13), Pt(14, 12, 15)>>

Init ==
    /\ shape \in Shapes
    /\ axis \in 0..2
    /\ \/ /\ tr = TrIdentity
          /\ axis_offset \in VoxelOffsets
          /\ \E c \in {<<None, None>>, <<None, <<2, 3>>>>, <<BoundsInside, None>>,
                      <<BoundsAcross, None>>, <<BoundsAcross, <<2, 3>>>>,
                      <<BoundsOutside, None>>} :
                bounds = c[1] /\ sampling_dims = c[2]
       \/ /\ tr = TrIdentity
          /\ axis_offset \in NearOffsets
          /\ \E c \in {<<None, None>>, <<BoundsAcross, <<2, 3>>>>} :
                bounds = c[1] /\ sampling_dims = c[2]
       \/ /\ tr \in {TrShearXY, TrShearX, TrScaleShift}
          /\ \A i \in 1..3 : shape[i] >= 2
          /\ axis_offset \in VoxelOffsets
          /\ \E c \in {<<None, None>>, <<BoundsAcross, <<2, 3>>>>} :
                bounds = c[1] /\ sampling_dims = c[2]
       \/ /\ tr = TrMicro
          /\ axis_offset \in TickOffsets
          /\ bounds = None
          /\ sampling_dims = None
    /\ pc = "intersect"
    /\ edges_hit = <<>>
    /\ inters = None
    /\ extent = None
    /\ rect = None
    /\ dims = None
    /\ x = None
    /\ result = None

\* lines 124-130
Intersect ==
    /\ pc = "intersect"
    /\ LET vs == corners_trans(shape, tr)
           po == plane_origin_of(axis, axis_offset)
           pn == plane_normal_of(axis)
       IN  /\ edges_hit' = edge_inters(vs, cuboid_edges, po, pn)
           /\ inters' = intersect_poly(edges_hit')
    /\ pc' = "check"
    /\ UNCHANGED <<inputs, extent, rect, dims, x, result>>

\* lines 133-134
NoSlice ==
    /\ pc = "check"
    /\ inters = None \/ Len(inters) < 3
    /\ result' = None
    /\ pc' = "done"
    /\ UNCHANGED <<inputs, edges_hit, inters, extent, rect, dims, x>>

\* lines 136-165
Rectangle ==
    /\ pc = "check"
    /\ ~(inters = None \/ Len(inters) < 3)
    /\ extent' = constrain_to_bounds(axis, natural_extent(axis, inters), bounds)
    /\ rect' = sampling_rect(axis, axis_offset, extent')
    /\ pc' = "resolution"
    /\ UNCHANGED <<inputs, edges_hit, inters, dims, x, result>>

\* lines 167-180
Resolution ==
    /\ pc = "resolution"
    /\ dims' = resolution(tr, rect, sampling_dims)
    /\ pc' = "sample"
    /\ UNCHANGED <<inputs, edges_hit, inters, extent, rect, x, result>>

\* lines 182-208
Sample ==
    /\ pc = "sample"
    /\ x' = voxel_grid(shape, tr, axis, axis_offset, extent, dims[1], dims[2])
    /\ result' = <<gather(shape, x'), axis_lims_of(axis, rect), labs_of(axis)>>
    /\ pc' = "done"
    /\ UNCHANGED <<inputs, edges_hit, inters, extent, rect, dims>>

Next == Intersect \/ NoSlice \/ Rectangle \/ Resolution \/ Sample

Spec == Init /\ [][Next]_vars

\* ------------------------------------------------------------------ claims
Returned == pc = "done" /\ result # None
Refused == pc = "done" /\ result = None
DimAlong == shape[axis + 1]
DimA == shape[var_dims(axis)[1] + 1]
DimB == shape[var_dims(axis)[2] + 1]
HalfEpsilon == S(0, EpsTicks, 2)
Range(f) == {f[i] : i \in DOMAIN f}
AlongAxis(p) == p[axis + 1]

\* the inverse-transformed coordinates of the grid point of raster row r and
\* column q: position q along the first in-plane dimension, r along the second
GridPoint(r, q) ==
    transform_inv(tr,
        LET a == linspace(extent.x_min, extent.x_max, dims[2], q - 1)
            b == linspace(extent.y_min, extent.y_max, dims[1], r - 1)
        IN  CASE axis = 0 -> <<axis_offset, a, b>>
              [] axis = 1 -> <<a, axis_offset, b>>
              [] axis = 2 -> <<a, b, axis_offset>>)
Cells == {<<r, q>> : r \in 1..dims[1], q \in 1..dims[2]}

\* C1 as stated: with the identity transform, an axis_offset outside
\* [0, dim-1] by any distance, however small, gives "no slice".
OffsetOutside ==
    Lt(axis_offset, Zero) \/ Lt(Int2S(DimAlong - 1), axis_offset)
C1_AnyDistanceOutside ==
    (pc = "done" /\ tr = TrIdentity /\ OffsetOutside) => result = None

\* C1 amended: with the identity transform, an axis_offset outside [0, dim-1]
\* by more than epsilon/2 gives "no slice", with or without bounds and
\* sampling_dims.
OffsetFarOutside ==
    \/ Lt(axis_offset, Neg(HalfEpsilon))
    \/ Lt(Add(Int2S(DimAlong - 1), HalfEpsilon), axis_offset)
C1_BeyondHalfEpsilon ==
    (pc = "done" /\ tr = TrIdentity /\ OffsetFarOutside) => result = None
C1_Witness ==
    /\ Refused /\ tr = TrIdentity /\ OffsetFarOutside
    /\ DimAlong >= 2 /\ axis_offset.t # 0 /\ bounds # None

\* C2 as stated: when the plane misses the transformed cuboid or touches it
\* only along one edge or at one corner, slice_image returns "no slice" and
\* the intersection point set has fewer than 3 points.  (Stated for volumes
\* of at least 2 voxels a side and offsets at voxel scale, where neither a
\* flat cuboid nor the tolerance epsilon plays a part.)
CornersOnPlane ==
    {p \in Range(corners_trans(shape, tr)) : AlongAxis(p) = axis_offset}
OneSided ==
    \/ \A p \in Range(corners_trans(shape, tr)) : Le(axis_offset, AlongAxis(p))
    \/ \A p \in Range(corners_trans(shape, tr)) : Le(AlongAxis(p), axis_offset)
Grazes == OneSided /\ Cardinality(CornersOnPlane) <= 2
C2_GrazingGivesNoSlice ==
    (/\ pc = "done" /\ axis_offset.t = 0 /\ tr # TrMicro
     /\ \A i \in 1..3 : shape[i] >= 2
     /\ Grazes)
        => (result = None /\ (inters = None \/ Len(inters) < 3))

\* C3 as stated: with the identity transform and axis_offset 0 or dim-1, for
\* every shape (a dimension of size 1 included), the intersection point set
\* holds the 4 corners of the face, slice_image returns a slice and the
\* rectangle spans [0, dimA-1] x [0, dimB-1].
FaceAligned ==
    /\ tr = TrIdentity
    /\ axis_offset = Zero \/ axis_offset = Int2S(DimAlong - 1)
FaceRect ==
    LET a == Int2S(DimA - 1)
        b == Int2S(DimB - 1)
    IN  sampling_rect(axis, axis_offset,
            [x_min |-> Zero, y_min |-> Zero, x_max |-> a, y_max |-> b])
C3_FaceAlignedSlice ==
    (pc = "done" /\ FaceAligned /\ bounds = None)
        => /\ result # None
           /\ inters # None
           /\ CornersOnPlane \subseteq Range(inters)
           /\ rect = FaceRect

\* C4 as stated: identity transform, axis = 2, integer axis_offset k in
\* 0..Nz-1, no bounds, no sampling_dims: the raster equals image[:, :, k],
\* raster[i][j] = image[i, j, k].  (Stated for Nz >= 2, where slice_image
\* returns a raster.)
AxialCall ==
    /\ pc = "done" /\ tr = TrIdentity /\ axis = 2
    /\ bounds = None /\ sampling_dims = None
    /\ axis_offset \in {Int2S(k) : k \in 0..(shape[3] - 1)}
C4_RasterIsImagePlane ==
    (AxialCall /\ shape[3] >= 2) =>
        /\ result # None
        /\ Len(result[1]) = shape[1]
        /\ \A i \in 1..shape[1] :
              /\ Len(result[1][i]) = shape[2]
              /\ \A j \in 1..shape[2] :
                    result[1][i][j] = image(shape, i - 1, j - 1, axis_offset.n)

\* C4 amended: in that call with Nz >= 2 the raster is the transpose of
\* image[:, :, k]: its shape is (Ny, Nx) and raster[j][i] = image[i, j, k];
\* with Nz = 1 slice_image returns "no slice".
C4_RasterIsTransposedPlane ==
    AxialCall =>
        IF shape[3] = 1 THEN result = None
        ELSE /\ result # None
             /\ Len(result[1]) = shape[2]
             /\ \A j \in 1..shape[2] :
                   /\ Len(result[1][j]) = shape[1]
                   /\ \A i \in 1..shape[1] :
                         result[1][j][i] = image(shape, i - 1, j - 1, axis_offset.n)
C4_Witness ==
    /\ AxialCall /\ result # None
    /\ shape[1] = 3 /\ shape[2] = 2
    /\ result[1][2][3] = image(shape, 2, 1, axis_offset.n)

\* C5: with bounds, whenever a slice is returned, the sampling rectangle and
\* the returned axis extents are the min and max of the bounds on the two
\* in-plane dimensions, whatever the plane's own extent in the volume.
IsMinOf(m, k) ==
    /\ \E i \in DOMAIN bounds : VarCoord(axis, bounds[i], k) = m
    /\ \A i \in DOMAIN bounds : Le(m, VarCoord(axis, bounds[i], k))
IsMaxOf(m, k) ==
    /\ \E i \in DOMAIN bounds : VarCoord(axis, bounds[i], k) = m
    /\ \A i \in DOMAIN bounds : Le(VarCoord(axis, bounds[i], k), m)
C5_BoundsOverride ==
    (Returned /\ bounds # None) =>
        /\ IsMinOf(extent.x_min, 1) /\ IsMaxOf(extent.x_max, 1)
        /\ IsMinOf(extent.y_min, 2) /\ IsMaxOf(extent.y_max, 2)
        /\ \A c \in 1..4 : AlongAxis(rect[c]) = axis_offset
        /\ <<VarCoord(axis, rect[1], 1), VarCoord(axis, rect[1], 2)>>
              = <<extent.x_min, extent.y_min>>
        /\ <<VarCoord(axis, rect[2], 1), VarCoord(axis, rect[2], 2)>>
              = <<extent.x_max, extent.y_min>>
        /\ <<VarCoord(axis, rect[3], 1), VarCoord(axis, rect[3], 2)>>
              = <<extent.x_max, extent.y_max>>
        /\ <<VarCoord(axis, rect[4], 1), VarCoord(axis, rect[4], 2)>>
              = <<extent.x_min, extent.y_max>>
        /\ result[2] = << <<extent.x_min, extent.x_max>>,
                          <<extent.y_min, extent.y_max>> >>
\* the bounds reach beyond the plane's extent in the volume on every side
C5_Witness ==
    /\ Returned /\ bounds = BoundsAcross
    /\ LET nat == natural_extent(axis, inters)
       IN  /\ Lt(extent.x_min, nat.x_min) /\ Lt(nat.x_max, extent.x_max)
           /\ Lt(extent.y_min, nat.y_min) /\ Lt(nat.y_max, extent.y_max)

\* C6: without sampling_dims the raster has width ceil(w) + 1 and height
\* ceil(h) + 1, w and h the larger voxel-space lengths of the rectangle's
\* sides 0-1, 2-3 and 1-2, 3-0; a side of length zero gives 1 sample.
SideSq(c1, c2) ==
    NormSq(VSub(transform_inv(tr, rect[c2]), transform_inv(tr, rect[c1])))
\* n = ceil(sqrt(sq)) + 1, for a fraction sq >= 0
IsCeilPlusOne(n, sq) ==
    /\ n >= 1
    /\ (n - 1) * (n - 1) * sq.d >= sq.n
    /\ n = 1 \/ (n - 2) * (n - 2) * sq.d < sq.n
C6_EstimatedResolution ==
    (Returned /\ sampling_dims = None) =>
        /\ Len(result[1]) = dims[1]
        /\ \A r \in 1..dims[1] : Len(result[1][r]) = dims[2]
        /\ IsCeilPlusOne(dims[2], Max2(SideSq(1, 2), SideSq(3, 4)))
        /\ IsCeilPlusOne(dims[1], Max2(SideSq(2, 3), SideSq(4, 1)))
IsWholeLength(sq) == \E k \in 0..sq.n : k * k * sq.d = sq.n
C6_Witness ==
    /\ Returned /\ sampling_dims = None
    /\ ~IsWholeLength(SideSq(1, 2))
    /\ SideSq(2, 3) = Zero /\ dims[1] = 1

\* C7: every voxel index read lies in [0, dim-1] on each axis; a grid point
\* that maps outside the volume reads the nearest boundary voxel.
C7_IndicesInsideVolume ==
    (x # None) =>
        \A c \in Cells : \A i \in 1..3 :
            LET idx == x[c[1]][c[2]][i]
                g == GridPoint(c[1], c[2])[i]
            IN  /\ 0 <= idx /\ idx <= shape[i] - 1
                /\ Lt(g, Zero) => idx = 0
                /\ Lt(Int2S(shape[i] - 1), g) => idx = shape[i] - 1
C7_Witness ==
    /\ Returned
    /\ \E c \in Cells : \E i \in 1..3 : Lt(GridPoint(c[1], c[2])[i], Int2S(-1))
    /\ \E c \in Cells : \E i \in 1..3 :
          Lt(Int2S(shape[i]), GridPoint(c[1], c[2])[i])

\* C8: the raster has hn rows of wn values; raster[r][c] is the value at the
\* c-th grid position along the first in-plane dimension and the r-th along
\* the second; with sampling_dims = (H, W) the raster's shape is (H, W).
ReadAt(g) ==
    image(shape, clip(Trunc(g[1]), 0, shape[1] - 1),
                 clip(Trunc(g[2]), 0, shape[2] - 1),
                 clip(Trunc(g[3]), 0, shape[3] - 1))
C8_RasterLayout ==
    Returned =>
        /\ Len(result[1]) = dims[1]
        /\ \A r \in 1..dims[1] :
              /\ Len(result[1][r]) = dims[2]
              /\ \A c \in 1..dims[2] : result[1][r][c] = ReadAt(GridPoint(r, c))
        /\ sampling_dims # None =>
              /\ Len(result[1]) = sampling_dims[1]
              /\ \A r \in 1..Len(result[1]) : Len(result[1][r]) = sampling_dims[2]
\* a raster that differs from its own transposed reading
C8_Witness ==
    /\ Returned /\ sampling_dims = <<2, 3>>
    /\ result[1][1][2] # result[1][2][1]
    /\ result[1][1][3] # result[1][1][2]

\* C9: the voxel index read is the coordinate truncated toward zero, then
\* clipped, never rounded: n <= c < n+1 with n >= 0 reads voxel n (or dim-1
\* when n is beyond it), and -1 < c < 0 reads voxel 0.
C9_TruncationNotRounding ==
    (x # None) =>
        \A c \in Cells : \A i \in 1..3 :
            LET idx == x[c[1]][c[2]][i]
                g == GridPoint(c[1], c[2])[i]
            IN  /\ Le(Zero, g) =>
                    /\ Le(Int2S(idx), g)
                    /\ Lt(g, Int2S(idx + 1)) \/ idx = shape[i] - 1
                /\ (Lt(Int2S(-1), g) /\ Lt(g, Zero)) => idx = 0
\* a coordinate whose fraction is at least 1/2 read below, and one in (-1, 0)
C9_Witness ==
    /\ Returned
    /\ \E c \in Cells : \E i \in 1..3 :
          LET idx == x[c[1]][c[2]][i]
              g == GridPoint(c[1], c[2])[i]
          IN  /\ Le(Add(Int2S(idx), Half(1)), g) /\ Lt(g, Int2S(idx + 1))
              /\ idx + 1 <= shape[i] - 1
    /\ \E c \in Cells : \E i \in 1..3 :
          LET g == GridPoint(c[1], c[2])[i]
          IN  Lt(Int2S(-1), g) /\ Lt(g, Zero)

\* C10: an edge nearly parallel to the plane (|normal . direction| < epsilon)
\* gives no intersection; any other edge gives the line's intersection point
\* exactly when that point is between the endpoints within the tolerance;
\* every point returned is on the plane and within epsilon of the span of the
\* endpoints; intersect_poly keeps the edges' points in order, drops the
\* edges without one, and is null exactly when no edge has one.
EdgeP1(e) == corners_trans(shape, tr)[cuboid_edges[e][1]]
EdgeP2(e) == corners_trans(shape, tr)[cuboid_edges[e][2]]
NearParallel(p1, p2) == Lt(Abs(Sub(AlongAxis(p2), AlongAxis(p1))), Epsilon)
\* the plane's coordinate is between the endpoints'
Crosses(p1, p2) ==
    /\ Le(Min2(AlongAxis(p1), AlongAxis(p2)), axis_offset)
    /\ Le(axis_offset, Max2(AlongAxis(p1), AlongAxis(p2)))
WithinSpan(p, p1, p2) ==
    \A i \in 1..3 :
        /\ Le(Sub(Min2(p1[i], p2[i]), Epsilon), p[i])
        /\ Le(p[i], Add(Max2(p1[i], p2[i]), Epsilon))
\* how far the plane's coordinate is beyond the endpoints' (0 when between)
Overshoot(p1, p2) ==
    Max2(Zero, Max2(Sub(Min2(AlongAxis(p1), AlongAxis(p2)), axis_offset),
                    Sub(axis_offset, Max2(AlongAxis(p1), AlongAxis(p2)))))
\* dist(p1, p2) + epsilon >= dist(p1, q) + dist(q, p2) for the line's point q:
\* the two distances exceed dist(p1, p2) by twice the overshoot along the line
BetweenWithinEpsilon(p1, p2) ==
    LET nu == Abs(Sub(AlongAxis(p2), AlongAxis(p1)))
    IN  ~ExceedsEpsilon(Div(Add(Overshoot(p1, p2), Overshoot(p1, p2)), nu),
                        VSub(p2, p1))
\* the point of the line through p1 and p2 at the plane's coordinate
LinePoint(p1, p2) ==
    LET lambda == Div(Sub(axis_offset, AlongAxis(p1)),
                      Sub(AlongAxis(p2), AlongAxis(p1)))
    IN  VAdd(p1, VScale(lambda, VSub(p2, p1)))
EdgeAsClaimed(p1, p2, hit) ==
    /\ NearParallel(p1, p2) => hit = None
    /\ ~NearParallel(p1, p2) =>
          /\ hit # None <=> BetweenWithinEpsilon(p1, p2)
          /\ Crosses(p1, p2) => hit # None
          /\ hit # None =>
                /\ hit = LinePoint(p1, p2)
                /\ AlongAxis(hit) = axis_offset
                /\ WithinSpan(hit, p1, p2)
C10_SegmentIntersection ==
    (pc = "check") =>
        /\ \A e \in 1..12 : EdgeAsClaimed(EdgeP1(e), EdgeP2(e), edges_hit[e])
        /\ inters = None <=> \A e \in 1..12 : edges_hit[e] = None
        /\ inters # None =>
              inters = SelectSeq(edges_hit, LAMBDA r : r # None)
\* one edge dropped for being nearly parallel though the plane crosses it,
\* another edge's point kept
C10_Witness ==
    /\ pc = "check"
    /\ \E e \in 1..12 :
          /\ AlongAxis(EdgeP1(e)) # AlongAxis(EdgeP2(e))
          /\ NearParallel(EdgeP1(e), EdgeP2(e)) /\ Crosses(EdgeP1(e), EdgeP2(e))
    /\ \E e \in 1..12 : edges_hit[e] # None
    /\ \E e \in 1..12 : edges_hit[e] = None
====
